---- MODULE Spec2Model ----
(***************************************************************************)
(* A model of csv_splitter_converter.py: CSVSplitterConverter              *)
(* (estimate_rows_per_chunk, get_total_rows, split_and_convert).           *)
(*                                                                         *)
(* The input file is a header followed by a sequence of lines.  A line is  *)
(* an integer: v > 0 is a well-formed record with content v, v < 0 is a    *)
(* malformed line (more fields than the header, what pandas calls a bad    *)
(* line).  A DataFrame is [start, rows]: a RangeIndex starting at `start`  *)
(* and the records.  The storage is a function from the paths present to   *)
(* files [rows, complete]; a file that was opened for writing and never    *)
(* finished is present with complete = FALSE.                              *)
(***************************************************************************)
EXTENDS Integers, Sequences, FiniteSets, TLC

VARIABLES
    input,          \* the lines of input_csv after the header
    chunk_size_mb,  \* self.chunk_size_mb
    dir_exists,     \* output_dir exists
    dir_created,    \* this run created output_dir
    disk,           \* the files of output_dir: path -> [rows, complete]
    total_rows,     \* split_and_convert's total_rows (None when unknown)
    count_io_error, \* get_total_rows could not read or decode the file
    total_chunks,   \* split_and_convert's total_chunks (None when unknown)
    sample_len,     \* len(sample_df) of the last estimation
    sample_memory,  \* sample_memory of the last estimation
    rows_per_chunk, \* split_and_convert's rows_per_chunk
    rows_read,      \* chunk_iterator: records handed out so far
    first_chunk,    \* chunk_iterator: no batch was produced yet
    enum_next,      \* enumerate(pbar): the index of the next batch
    chunk_num,      \* loop variable chunk_num
    chunk,          \* loop variable chunk (a DataFrame)
    created_files,  \* created_files
    write_log,      \* every path to_parquet opened for writing, in order
    printed,        \* the kinds of message printed so far
    fault,          \* the step an error was raised in ("none" when none was)
    fault_batch,    \* the batch being processed when the error was raised
    ret,            \* the value split_and_convert returned
    pc              \* the position of the run

vars == <<input, chunk_size_mb, dir_exists, dir_created, disk, total_rows,
          count_io_error, total_chunks, sample_len, sample_memory,
          rows_per_chunk, rows_read, first_chunk,
          enum_next, chunk_num, chunk, created_files, write_log, printed,
          fault, fault_batch, ret, pc>>

(***************************************************************************)
(* Program constants.                                                      *)
(***************************************************************************)
bytes_per_mb == 1048576

sample_size == 1000

MinRows == 1000

DefaultRows == 10000

DefaultChunkSizeMb == 250

None == -1

(***************************************************************************)
(* Bounds of the model.                                                    *)
(***************************************************************************)
MaxBatches == 2

MaxBad == 2

\* The target sizes a caller passes (megabytes), beside the default.
ChunkSizes == {-1, 0, 1}

\* The deep memory footprints (bytes) the sample may measure.
SampleFootprints == {132, 699050, 2000000}

\* The numbers of lines of the inputs: none, one, and around the multiples
\* of the smallest batch.
Lengths ==
    {0, 1} \cup {k * MinRows + d : k \in 1..MaxBatches,
                                   d \in {0, 1, MinRows \div 2}}

\* The places of the malformed lines of an input of L lines: at most MaxBad
\* of the first line, the line that would end a first batch of MinRows lines,
\* and the last line.
BadPositions(L) ==
    {S \in SUBSET ({1, MinRows, L} \cap (1..L)) :
        Cardinality(S) <= MaxBad}

MakeInput(L, S) == [i \in 1..L |-> IF i \in S THEN -i ELSE i]

(***************************************************************************)
(* Helpers.                                                                *)
(***************************************************************************)
Max(a, b) == IF a >= b THEN a ELSE b

Min(a, b) == IF a <= b THEN a ELSE b

\* floor(t * n / f) for t >= 0, n >= 0, f > 0, computed without forming
\* t * n (which does not fit TLC's 32-bit integers).
MulDiv(t, n, f) == (t \div f) * n + ((t % f) * n) \div f

\* Python's int() of the quotient t / (f / n), f > 0, n > 0: truncation
\* towards zero.
TruncQuot(t, n, f) == IF t >= 0 THEN MulDiv(t, n, f) ELSE -MulDiv(-t, n, f)

\* math.ceil(a / b), a >= 0, b > 0.
CeilDiv(a, b) == (a + b - 1) \div b

WellFormed(line) == line > 0

\* A faulty variant of ParsedRecords: bad lines are kept as records.
ParsedRecords_KeepBad(lines) == lines

\* The records a reader with on_bad_lines='skip' parses from the lines.
ParsedRecords(lines) == SelectSeq(lines, WellFormed)

HasBadLine(lines) == \E i \in 1..Len(lines) : ~WellFormed(lines[i])

(***************************************************************************)
(* The pure parts of the program.                                          *)
(***************************************************************************)
RECURSIVE Digits(_)
Digits(n) == IF n < 10 THEN <<n>> ELSE Digits(n \div 10) \o <<n % 10>>

RECURSIVE ZeroPad(_, _)
ZeroPad(s, width) == IF Len(s) >= width THEN s ELSE ZeroPad(<<0>> \o s, width)

\* output_dir / f"chunk_{chunk_num:04d}.parquet": the path is named by the
\* decimal digits of chunk_num, zero-padded to at least four.
OutputFile(n) == ZeroPad(Digits(n), 4)

\* pd.read_csv(csv_path, nrows=sample_size, on_bad_lines='skip')
ReadSample(lines) ==
    LET recs == ParsedRecords(lines)
    IN  SubSeq(recs, 1, Min(sample_size, Len(recs)))

\* A faulty variant of EstimateRows: the quotient without the floor of
\* MinRows.
EstimateRows_NoFloor(n, F, mb) ==
    IF n = 0 THEN 0 ELSE TruncQuot(mb * bytes_per_mb, n, F)

\* The body of estimate_rows_per_chunk's try block for a sample of n records
\* whose memory_usage(deep=True).sum() is F > 0 (a numpy integer).  With
\* n = 0 the numpy division F / 0 yields inf with a warning and raises
\* nothing, target / inf is 0.0 and int(0.0) is 0.
EstimateRows(n, F, mb) ==
    LET target_chunk_size == mb * bytes_per_mb
    IN  IF n = 0
        THEN Max(MinRows, 0)
        ELSE Max(MinRows, TruncQuot(target_chunk_size, n, F))

\* get_total_rows: pd.read_csv(csv_path, chunksize=10000) has the default
\* on_bad_lines='error', so a bad line raises ParserError, which the except
\* clause turns into None.
CountRows(lines) == IF HasBadLine(lines) THEN None ELSE Len(lines)

\* math.ceil(total_rows / rows_per_chunk) when total_rows is truthy.
TotalChunks(rows, per_chunk) ==
    IF rows = None \/ rows = 0 THEN None ELSE CeilDiv(rows, per_chunk)

\* A faulty variant of NextChunk: every batch is one record short.
NextChunk_ShortBatch(lines, done, per_chunk) ==
    LET recs == ParsedRecords(lines)
    IN  [start |-> done,
         rows  |-> SubSeq(recs, done + 1,
                          Min(done + per_chunk - 1, Len(recs)))]

\* chunk_iterator.__next__: the next per_chunk parsed records (bad lines are
\* skipped and do not count), as a DataFrame whose RangeIndex continues.
NextChunk(lines, done, per_chunk) ==
    LET recs == ParsedRecords(lines)
    IN  [start |-> done,
         rows  |-> SubSeq(recs, done + 1, Min(done + per_chunk, Len(recs)))]

\* The iterator is exhausted when no parsed record is left, except that the
\* first call always yields a DataFrame (empty for a header-only input).
Exhausted(lines, done, first) == ~first /\ done >= Len(ParsedRecords(lines))

\* chunk.to_parquet(output_file, index=False): the records without the index.
ToParquet(df) == [rows |-> df.rows, complete |-> TRUE]

\* The file as it is while to_parquet is writing it, and as it stays when
\* the write does not finish: at the final path, without the footer.
PartialFile(df) == [rows |-> <<>>, complete |-> FALSE]

\* Storing file f at path p.
Store(d, p, f) == [q \in (DOMAIN d) \cup {p} |-> IF q = p THEN f ELSE d[q]]

\* A faulty variant of NextIndex: the index does not advance.
NextIndex_Stuck(i) == i

\* enumerate: the index after i.
NextIndex(i) == i + 1

\* A faulty variant of ErrorResult: the segments created so far are dropped.
ErrorResult_Discard(files) == <<>>

\* The value a run that stops on an error returns (the except clause).
ErrorResult(files) == files

\* The value a run that completes returns.
SuccessResult(files) == files

(***************************************************************************)
(* The run.                                                                *)
(***************************************************************************)
Init ==
    /\ \E L \in Lengths : \E S \in BadPositions(L) : input = MakeInput(L, S)
    /\ chunk_size_mb = DefaultChunkSizeMb
    /\ dir_exists \in BOOLEAN
    /\ dir_created = FALSE
    /\ disk = <<>>
    /\ total_rows = None
    /\ count_io_error = FALSE
    /\ total_chunks = None
    /\ sample_len = 0
    /\ sample_memory = 0
    /\ rows_per_chunk = 0
    /\ rows_read = 0
    /\ first_chunk = TRUE
    /\ enum_next = 0
    /\ chunk_num = None
    /\ chunk = [start |-> 0, rows |-> <<>>]
    /\ created_files = <<>>
    /\ write_log = <<>>
    /\ printed = {}
    /\ fault = "none"
    /\ fault_batch = None
    /\ ret = <<>>
    /\ pc = "call"

\* An error raised inside the try block of split_and_convert: the except
\* clause runs next.
Raise(step, batch) ==
    /\ fault' = step
    /\ fault_batch' = batch
    /\ pc' = "except"

\* split_and_convert, lines 68-73: the optional override of the target size,
\* then output_dir.mkdir(parents=True, exist_ok=True).  There is no check of
\* the target size.  mkdir is outside the try block: its error propagates.
Begin ==
    /\ pc = "call"
    /\ \E override \in {None} \cup ChunkSizes :
          chunk_size_mb' = IF override = None THEN chunk_size_mb ELSE override
    /\ \/ /\ dir_exists' = TRUE
          /\ dir_created' = ~dir_exists
          /\ pc' = "count"
          /\ UNCHANGED fault
       \/ /\ ~dir_exists
          /\ UNCHANGED <<dir_exists, dir_created>>
          /\ fault' = "mkdir"
          /\ pc' = "raised"
    /\ UNCHANGED <<input, disk, total_rows, count_io_error, total_chunks,
                   sample_len, sample_memory, rows_per_chunk, rows_read,
                   first_chunk, enum_next, chunk_num, chunk, created_files,
                   write_log, printed, fault_batch, ret>>

\* get_total_rows, called at line 76.  io_error: the file cannot be read or
\* decoded; the except clause returns None then too.
GetTotalRows ==
    /\ pc = "count"
    /\ \E io_error \in BOOLEAN :
          /\ count_io_error' = io_error
          /\ total_rows' = IF io_error THEN None ELSE CountRows(input)
    /\ printed' = IF total_rows' = None
                  THEN printed \cup {"count_warning"} ELSE printed
    /\ pc' = "estimate"
    /\ UNCHANGED <<input, chunk_size_mb, dir_exists, dir_created, disk,
                   total_chunks, sample_len, sample_memory, rows_per_chunk,
                   rows_read, first_chunk, enum_next, chunk_num, chunk,
                   created_files, write_log, fault, fault_batch, ret>>

\* estimate_rows_per_chunk, called at line 77, then lines 79-91.  Either
\* reading the sample raises (the except clause returns the default), or the
\* sample is measured and the estimate computed.
Estimate ==
    /\ pc = "estimate"
    /\ \/ /\ sample_len' = None
          /\ sample_memory' = None
          /\ rows_per_chunk' = DefaultRows
          /\ printed' = printed \cup {"estimate_error"}
       \/ \E F \in SampleFootprints :
             /\ sample_len' = Len(ReadSample(input))
             /\ sample_memory' = F
             /\ rows_per_chunk' = EstimateRows(sample_len', F, chunk_size_mb)
             /\ UNCHANGED printed
    /\ total_chunks' = TotalChunks(total_rows, rows_per_chunk')
    /\ pc' = "open"
    /\ UNCHANGED <<input, chunk_size_mb, dir_exists, dir_created, disk,
                   total_rows, count_io_error, rows_read, first_chunk,
                   enum_next, chunk_num, chunk, created_files, write_log,
                   fault, fault_batch, ret>>

\* Lines 95-105: pd.read_csv(..., chunksize=rows_per_chunk,
\* on_bad_lines='skip', iterator=True) and the progress bar.
OpenReader ==
    /\ pc = "open"
    /\ \/ /\ pc' = "iterate"
          /\ UNCHANGED <<fault, fault_batch>>
       \/ Raise("open", enum_next)
    /\ rows_read' = 0
    /\ first_chunk' = TRUE
    /\ UNCHANGED <<input, chunk_size_mb, dir_exists, dir_created, disk,
                   total_rows, count_io_error, total_chunks, sample_len,
                   sample_memory, rows_per_chunk, enum_next, chunk_num,
                   chunk, created_files, write_log, printed, ret>>

\* Line 107: the for statement asks the iterator for the next batch.
NextBatch ==
    /\ pc = "iterate"
    /\ \/ /\ ~Exhausted(input, rows_read, first_chunk)
          /\ chunk' = NextChunk(input, rows_read, rows_per_chunk)
          /\ rows_read' = rows_read + Len(chunk'.rows)
          /\ first_chunk' = FALSE
          /\ chunk_num' = enum_next
          /\ enum_next' = NextIndex(enum_next)
          /\ pc' = "write"
          /\ UNCHANGED <<fault, fault_batch>>
       \/ /\ Exhausted(input, rows_read, first_chunk)
          /\ pc' = "summary"
          /\ UNCHANGED <<chunk, rows_read, first_chunk, chunk_num, enum_next,
                         fault, fault_batch>>
       \/ /\ ~Exhausted(input, rows_read, first_chunk)
          /\ Raise("read", enum_next)
          /\ UNCHANGED <<chunk, rows_read, first_chunk, chunk_num, enum_next>>
    /\ UNCHANGED <<input, chunk_size_mb, dir_exists, dir_created, disk,
                   total_rows, count_io_error, total_chunks, sample_len,
                   sample_memory, rows_per_chunk, created_files, write_log,
                   printed, ret>>

\* Lines 109-112, first half: to_parquet converts the batch and opens
\* output_file for writing, which creates it (or truncates it) at the final
\* path.  A conversion error or a failure to open leaves no file.
WriteOpen ==
    /\ pc = "write"
    /\ \/ /\ disk' = Store(disk, OutputFile(chunk_num), PartialFile(chunk))
          /\ write_log' = Append(write_log, OutputFile(chunk_num))
          /\ pc' = "writing"
          /\ UNCHANGED <<fault, fault_batch>>
       \/ /\ Raise("convert", chunk_num)
          /\ UNCHANGED <<disk, write_log>>
    /\ UNCHANGED <<input, chunk_size_mb, dir_exists, dir_created,
                   total_rows, count_io_error, total_chunks, sample_len,
                   sample_memory, rows_per_chunk, rows_read, first_chunk,
                   enum_next, chunk_num, chunk, created_files, printed, ret>>

\* Line 112, second half: the write finishes and the file is closed, or it
\* fails (disk full) and the file stays as it is; nothing removes it.
WriteFinish ==
    /\ pc = "writing"
    /\ \/ /\ disk' = Store(disk, OutputFile(chunk_num), ToParquet(chunk))
          /\ pc' = "append"
          /\ UNCHANGED <<fault, fault_batch>>
       \/ /\ Raise("write", chunk_num)
          /\ UNCHANGED disk
    /\ UNCHANGED <<input, chunk_size_mb, dir_exists, dir_created,
                   total_rows, count_io_error, total_chunks, sample_len,
                   sample_memory, rows_per_chunk, rows_read, first_chunk,
                   enum_next, chunk_num, chunk, created_files, write_log,
                   printed, ret>>

\* Line 113: created_files.append(output_file).
AppendFile ==
    /\ pc = "append"
    /\ created_files' = Append(created_files, OutputFile(chunk_num))
    /\ pc' = "measure"
    /\ UNCHANGED <<input, chunk_size_mb, dir_exists, dir_created, disk,
                   total_rows, count_io_error, total_chunks, sample_len,
                   sample_memory, rows_per_chunk, rows_read, first_chunk,
                   enum_next, chunk_num, chunk, write_log, printed, fault,
                   fault_batch, ret>>

\* Lines 116-117: os.path.getsize(output_file) and pbar.set_postfix.
Measure ==
    /\ pc = "measure"
    /\ \/ /\ pc' = "iterate"
          /\ UNCHANGED <<fault, fault_batch>>
       \/ Raise("measure", chunk_num)
    /\ UNCHANGED <<input, chunk_size_mb, dir_exists, dir_created, disk,
                   total_rows, count_io_error, total_chunks, sample_len,
                   sample_memory, rows_per_chunk, rows_read, first_chunk,
                   enum_next, chunk_num, chunk, created_files, write_log,
                   printed, ret>>

\* Lines 119-124: the list of created files is printed with the size of
\* each, and returned.
Summary ==
    /\ pc = "summary"
    /\ \/ /\ printed' = printed \cup {"created"}
          /\ ret' = SuccessResult(created_files)
          /\ pc' = "returned"
          /\ UNCHANGED <<fault, fault_batch>>
       \/ /\ Raise("summary", None)
          /\ UNCHANGED <<printed, ret>>
    /\ UNCHANGED <<input, chunk_size_mb, dir_exists, dir_created, disk,
                   total_rows, count_io_error, total_chunks, sample_len,
                   sample_memory, rows_per_chunk, rows_read, first_chunk,
                   enum_next, chunk_num, chunk, created_files, write_log>>

\* Lines 126-128: the except clause prints the error and returns the list.
Except ==
    /\ pc = "except"
    /\ printed' = printed \cup {"conversion_error"}
    /\ ret' = ErrorResult(created_files)
    /\ pc' = "returned"
    /\ UNCHANGED <<input, chunk_size_mb, dir_exists, dir_created, disk,
                   total_rows, count_io_error, total_chunks, sample_len,
                   sample_memory, rows_per_chunk, rows_read, first_chunk,
                   enum_next, chunk_num, chunk, created_files, write_log,
                   fault, fault_batch>>

\* The process is terminated from outside while to_parquet is writing.
Interrupt ==
    /\ pc = "writing"
    /\ pc' = "killed"
    /\ UNCHANGED <<input, chunk_size_mb, dir_exists, dir_created, disk,
                   total_rows, count_io_error, total_chunks, sample_len,
                   sample_memory, rows_per_chunk, rows_read, first_chunk,
                   enum_next, chunk_num, chunk, created_files, write_log,
                   printed, fault, fault_batch, ret>>

Next ==
    \/ Begin
    \/ GetTotalRows
    \/ Estimate
    \/ OpenReader
    \/ NextBatch
    \/ WriteOpen
    \/ WriteFinish
    \/ AppendFile
    \/ Measure
    \/ Summary
    \/ Except
    \/ Interrupt

Spec == Init /\ [][Next]_vars

(***************************************************************************)
(* Vocabulary of the properties.                                           *)
(***************************************************************************)
\* The run returned without any error.
Completed == pc = "returned" /\ fault = "none"

\* The estimation took the computed path (no error while sampling).
Estimated == pc \notin {"call", "raised", "count", "estimate"}

\* The well-formed records of the input, in input order.
GoodRecords == LET good(v) == v > 0 IN SelectSeq(input, good)

\* The number a path's digits spell.
RECURSIVE DigitsValue(_)
DigitsValue(s) ==
    IF s = <<>> THEN 0
    ELSE 10 * DigitsValue(SubSeq(s, 1, Len(s) - 1)) + s[Len(s)]

\* The paths of the segments 0 .. k-1, in order.
SegmentPaths(k) == [i \in 1..k |-> OutputFile(i - 1)]

\* The records of the i-th created file, as stored.
SegmentRows(i) == disk[created_files[i]].rows

\* The records of the first k created files, concatenated in order.
RECURSIVE ConcatSegments(_)
ConcatSegments(k) ==
    IF k = 0 THEN <<>> ELSE ConcatSegments(k - 1) \o SegmentRows(k)

\* The total number of records in the first k created files.
RECURSIVE WrittenRecords(_)
WrittenRecords(k) ==
    IF k = 0 THEN 0 ELSE WrittenRecords(k - 1) + Len(SegmentRows(k))

\* Every created file is on storage, whole.
AllStored(files) ==
    \A i \in 1..Len(files) :
        files[i] \in DOMAIN disk /\ disk[files[i]].complete

\* floor(t / (f / n)) for f > 0, n > 0 and any sign of t.
FloorQuot(t, n, f) ==
    IF t >= 0 THEN (t \div f) * n + ((t % f) * n) \div f
    ELSE LET a == -t
             q == (a \div f) * n + ((a % f) * n) \div f
         IN  IF ((a % f) * n) % f = 0 THEN -q ELSE -(q + 1)

\* f / n > t, for f > 0, n > 0.
AverageExceeds(f, n, t) == t < 0 \/ (f - 1) \div n >= t

(***************************************************************************)
(* C1: a completed run over an input of N >= 1 well-formed records and no  *)
(* malformed line, with R = rows_per_chunk from the estimator, has written *)
(* exactly ceil(N / R) segments; each but the last holds R records and the *)
(* last holds N - R * (K - 1), between 1 and R.                            *)
(***************************************************************************)
C1_SegmentSizes ==
    (Completed /\ Len(input) >= 1 /\ \A i \in 1..Len(input) : input[i] > 0) =>
        LET N == Len(input)
            R == rows_per_chunk
            K == Len(created_files)
        IN  /\ K >= 1
            /\ (K - 1) * R < N
            /\ N <= K * R
            /\ AllStored(created_files)
            /\ \A i \in 1..K :
                  Len(SegmentRows(i)) = IF i < K THEN R ELSE N - R * (K - 1)
            /\ Len(SegmentRows(K)) \in 1..R

\* A completed run over a clean input that wrote two full segments and a
\* shorter last one.
C1_Witness ==
    /\ Completed
    /\ \A i \in 1..Len(input) : input[i] > 0
    /\ Len(created_files) = 3
    /\ Len(SegmentRows(1)) = rows_per_chunk
    /\ Len(SegmentRows(2)) = rows_per_chunk
    /\ Len(SegmentRows(3)) = rows_per_chunk \div 2

(***************************************************************************)
(* C2: after a completed run the segments, concatenated in sequence order, *)
(* are exactly the well-formed input records, each once and in input       *)
(* order, and no segment holds a malformed line.                           *)
(***************************************************************************)
C2_RoundTrip ==
    Completed =>
        /\ AllStored(created_files)
        /\ ConcatSegments(Len(created_files)) = GoodRecords
        /\ \A i \in 1..Len(created_files) :
              \A j \in 1..Len(SegmentRows(i)) : SegmentRows(i)[j] > 0

\* A completed run of several segments over an input with malformed lines,
\* one of them inside the first batch.
C2_Witness ==
    /\ Completed
    /\ Len(created_files) >= 2
    /\ \E i \in 1..Len(input) : input[i] < 0 /\ i < rows_per_chunk
    /\ Len(GoodRecords) < Len(input)
    /\ WrittenRecords(Len(created_files)) = Len(GoodRecords)

(***************************************************************************)
(* C3: in every state of a run the created segments have the sequence      *)
(* indices 0, 1, .., K-1 in that order, their paths are pairwise distinct, *)
(* and no path was opened for writing twice.                               *)
(***************************************************************************)
C3_Contiguous ==
    /\ \A i \in 1..Len(created_files) :
          DigitsValue(created_files[i]) = i - 1
    /\ \A i, j \in 1..Len(created_files) :
          i # j => created_files[i] # created_files[j]
    /\ \A i, j \in 1..Len(write_log) : i # j => write_log[i] # write_log[j]
    /\ \A i \in 1..Len(created_files) :
          \E j \in 1..Len(write_log) : write_log[j] = created_files[i]

\* A run stopped by an error after it created several segments.
C3_Witness ==
    /\ pc = "returned"
    /\ fault # "none"
    /\ Len(created_files) >= 2

(***************************************************************************)
(* C4, as claimed: when an error stops the run while batch N is processed  *)
(* (reading, converting, writing it, or a later step of the same           *)
(* iteration), no later batch is processed and the result is exactly the   *)
(* segments 0 .. N-1, all of them on storage.                              *)
(***************************************************************************)
C4_ResultBeforeFailedBatch ==
    (/\ pc = "returned"
     /\ fault \in {"open", "read", "convert", "write", "measure"}) =>
        /\ ret = SegmentPaths(fault_batch)
        /\ AllStored(ret)
        /\ enum_next <= fault_batch + 1
        /\ \A j \in 1..Len(write_log) : DigitsValue(write_log[j]) <= fault_batch

(***************************************************************************)
(* C4, amended: an error while batch N is read, converted or written stops *)
(* the run with exactly the segments 0 .. N-1 as its result; an error in a *)
(* later step of the same iteration (after the segment was written and     *)
(* recorded) stops it with exactly the segments 0 .. N.  In both cases no  *)
(* later batch is processed and every returned segment is on storage.      *)
(***************************************************************************)
C4_ResultAtFailedBatch ==
    (/\ pc = "returned"
     /\ fault \in {"open", "read", "convert", "write", "measure"}) =>
        /\ ret = SegmentPaths(IF fault = "measure" THEN fault_batch + 1
                                                   ELSE fault_batch)
        /\ AllStored(ret)
        /\ enum_next <= fault_batch + 1
        /\ \A j \in 1..Len(write_log) : DigitsValue(write_log[j]) <= fault_batch

\* A run stopped by a write failure on its second batch, returning the first
\* segment alone.
C4_Witness ==
    /\ pc = "returned"
    /\ fault = "write"
    /\ fault_batch = 1
    /\ Len(ret) = 1
    /\ Len(write_log) = 2

(***************************************************************************)
(* C5: what the caller receives from a run that a batch read failure or a  *)
(* segment write failure stopped differs from what it receives from a      *)
(* successful run that produced the same segments.                         *)
(***************************************************************************)
C5_FailureDistinguishable ==
    (pc \in {"returned", "raised"} /\ fault \in {"read", "write"}) =>
        [value |-> ret, raised |-> pc = "raised"]
            # [value |-> SuccessResult(created_files), raised |-> FALSE]

(***************************************************************************)
(* C6: every file present at a final path is a complete segment, in every  *)
(* state of a run, and a failed write of batch N leaves no file at the     *)
(* path of segment N.                                                      *)
(***************************************************************************)
C6_AtomicWrite ==
    /\ \A p \in DOMAIN disk : disk[p].complete
    /\ fault = "write" => OutputFile(fault_batch) \notin DOMAIN disk

(***************************************************************************)
(* C7: unless the file cannot be read at all, get_total_rows returns the   *)
(* number of well-formed records, malformed lines or not, and that is the  *)
(* number of records a completed run has written.                          *)
(***************************************************************************)
C7_CountSkipsMalformed ==
    (pc \notin {"call", "raised", "count"} /\ ~count_io_error) =>
        /\ total_rows = Len(GoodRecords)
        /\ Completed => total_rows = WrittenRecords(Len(created_files))

(***************************************************************************)
(* C8: whenever sampling fails, a sample of zero records included, the     *)
(* estimate is the default 10000, so the computed path always divides by   *)
(* an average over at least one record.                                    *)
(***************************************************************************)
C8_DefaultOnSamplingFailure ==
    (Estimated /\ sample_len \in {None, 0}) => rows_per_chunk = DefaultRows

(***************************************************************************)
(* C9: a run asked for a target size that is not positive reports a        *)
(* failure, creates no output directory and writes no segment.             *)
(***************************************************************************)
C9_NonPositiveRejected ==
    (pc \in {"returned", "raised"} /\ chunk_size_mb <= 0) =>
        /\ fault # "none"
        /\ ~dir_created
        /\ write_log = <<>>

(***************************************************************************)
(* C10: for a sample of n >= 1 records measuring F bytes and a target of   *)
(* T bytes the estimate is max(1000, floor(T / (F / n))): never below      *)
(* 1000, and 1000 whenever F / n exceeds T.                                *)
(***************************************************************************)
C10_EstimateFormula ==
    (Estimated /\ sample_len # None /\ sample_len >= 1) =>
        LET T == chunk_size_mb * 1048576
            q == FloorQuot(T, sample_len, sample_memory)
        IN  /\ sample_len <= 1000
            /\ rows_per_chunk = IF q >= 1000 THEN q ELSE 1000
            /\ rows_per_chunk >= 1000
            /\ AverageExceeds(sample_memory, sample_len, T) =>
                  rows_per_chunk = 1000

\* An estimate over a one-record sample whose record is larger than a
\* positive target.
C10_Witness ==
    /\ Estimated
    /\ sample_len = 1
    /\ chunk_size_mb > 0
    /\ AverageExceeds(sample_memory, sample_len, chunk_size_mb * 1048576)
    /\ rows_per_chunk = 1000

====
